---- MODULE Spec2Model ----
(***************************************************************************)
(* Model of streamlit_app.py: the column detectors, normalize_df and the   *)
(* seven strat_* functions behind STRATEGY_MAP.                            *)
(*                                                                         *)
(* Column names are sequences of one-character strings so that lower(),    *)
(* startswith() and "in" are computed on the characters.  Floats are exact *)
(* extended rationals (NaN, +-inf, signed zero, n/d).                      *)
(***************************************************************************)
EXTENDS Integers, Sequences, FiniteSets, TLC

VARIABLES pc, raw, datetime_col, err, ndf, strategy_name, params, df, df0, ret

nvars == <<pc, raw, datetime_col, err, ndf>>

nvars_but_pc == <<raw, datetime_col, err, ndf>>

svars == <<strategy_name, params, df, df0, ret>>

vars == <<pc, raw, datetime_col, err, ndf, strategy_name, params, df, df0, ret>>

(***************************************************************************)
(* Bounds of the model                                                     *)
(***************************************************************************)
RawRows == 2

MaxRows == 3

MaxPrice == 2

MaxVol == 1

MaxWin == 3

MaxMult == 2

(***************************************************************************)
(* Strings                                                                 *)
(***************************************************************************)
None == << >>

Range(s) == {s[i] : i \in DOMAIN s}

MinOf(S) == CHOOSE x \in S : \A y \in S : x <= y

LowerChar(c) ==
    CASE c = "A" -> "a" [] c = "B" -> "b" [] c = "C" -> "c" [] c = "D" -> "d"
      [] c = "E" -> "e" [] c = "F" -> "f" [] c = "G" -> "g" [] c = "H" -> "h"
      [] c = "I" -> "i" [] c = "J" -> "j" [] c = "K" -> "k" [] c = "L" -> "l"
      [] c = "M" -> "m" [] c = "N" -> "n" [] c = "O" -> "o" [] c = "P" -> "p"
      [] c = "Q" -> "q" [] c = "R" -> "r" [] c = "S" -> "s" [] c = "T" -> "t"
      [] c = "U" -> "u" [] c = "V" -> "v" [] c = "W" -> "w" [] c = "X" -> "x"
      [] c = "Y" -> "y" [] c = "Z" -> "z" [] OTHER -> c

Lower(s) == [i \in DOMAIN s |-> LowerChar(s[i])]

StartsWith(s, p) == Len(s) >= Len(p) /\ SubSeq(s, 1, Len(p)) = p

Contains(s, p) ==
    \E i \in 1..(Len(s) - Len(p) + 1) : SubSeq(s, i, i + Len(p) - 1) = p

s_close == <<"c","l","o","s","e">>

s_open == <<"o","p","e","n">>

s_high == <<"h","i","g","h">>

s_low == <<"l","o","w">>

s_vol == <<"v","o","l">>

s_volume == <<"v","o","l","u","m","e">>

s_datetime == <<"d","a","t","e","t","i","m","e">>

s_date == <<"d","a","t","e">>

s_index == <<"i","n","d","e","x">>

s_level_0 == <<"l","e","v","e","l","_","0">>

s_Datetime == <<"D","a","t","e","t","i","m","e">>

s_Date == <<"D","a","t","e">>

s_Time == <<"T","i","m","e">>

s_Close == <<"C","l","o","s","e">>

s_AdjClose == <<"A","d","j"," ","C","l","o","s","e">>

s_Open == <<"O","p","e","n">>

s_High == <<"H","i","g","h">>

s_Low == <<"L","o","w">>

s_Volume == <<"V","o","l","u","m","e">>

(***************************************************************************)
(* Cells and tables of the normalizer                                      *)
(***************************************************************************)
NumCell(v) == [t |-> "num", v |-> v]

TsCell(v) == [t |-> "ts", v |-> v]

StrCell == [t |-> "str", v |-> 0]

NaNCell == [t |-> "nan", v |-> 0]

NoTable == [columns |-> << >>, data |-> << >>]

NoError == [exc |-> "none", line |-> 0]

\* cols = [c for c in df.columns if ...]; "cols[0] if cols else None": the first
\* element of cols among the names in S, or None.
FirstWhere(cols, S) ==
    LET hits == {i \in DOMAIN cols : cols[i] \in S}
    IN  IF hits = {} THEN None ELSE cols[MinOf(hits)]

\* df[name] = cells: replaces the column in place, or appends a new one.
SetColumn(d, name, cells) ==
    [columns |-> IF name \in Range(d.columns) THEN d.columns
                 ELSE Append(d.columns, name),
     data |-> [c \in Range(d.columns) \cup {name} |->
                  IF c = name THEN cells ELSE d.data[c]]]

detect_close_column(d) ==
    LET a == FirstWhere(d.columns, {c \in Range(d.columns) : StartsWith(c, s_close)})
    IN  IF a # None THEN a
        ELSE FirstWhere(d.columns, {c \in Range(d.columns) : Contains(Lower(c), s_close)})

detect_open_column(d) ==
    LET a == FirstWhere(d.columns, {c \in Range(d.columns) : StartsWith(c, s_open)})
    IN  IF a # None THEN a
        ELSE FirstWhere(d.columns, {c \in Range(d.columns) : Contains(Lower(c), s_open)})

detect_volume_column(d) ==
    FirstWhere(d.columns, {c \in Range(d.columns) : Contains(Lower(c), s_vol)})

detect_high_column(d) ==
    LET a == FirstWhere(d.columns, {c \in Range(d.columns) : StartsWith(c, s_high)})
    IN  IF a # None THEN a
        ELSE FirstWhere(d.columns, {c \in Range(d.columns) : Contains(Lower(c), s_high)})

detect_low_column(d) ==
    LET a == FirstWhere(d.columns, {c \in Range(d.columns) : StartsWith(c, s_low)})
    IN  IF a # None THEN a
        ELSE FirstWhere(d.columns, {c \in Range(d.columns) : Contains(Lower(c), s_low)})

\* pd.to_numeric(..., errors="coerce")
ToNumeric(cells) ==
    [i \in DOMAIN cells |-> IF cells[i].t = "num" THEN cells[i] ELSE NaNCell]

\* pd.to_datetime(...) with the default errors="raise"
Parseable(cells) == \A i \in DOMAIN cells : cells[i].t \in {"ts", "num"}

ToDatetime(cells) == [i \in DOMAIN cells |-> TsCell(cells[i].v)]

(***************************************************************************)
(* The raw snapshot handed to normalize_df                                 *)
(***************************************************************************)
\* The price columns in the order the provider returns them.
PriceColumns == <<s_AdjClose, s_Close, s_High, s_Low, s_Open, s_Volume>>

TimeColumns == {<< >>, <<s_Datetime>>, <<s_Date>>, <<s_Datetime, s_Date>>,
                <<s_Date, s_Datetime>>}

IndexNames == {None, s_Date, s_Datetime, s_Time}

Qualities == {"clean", "badtime", "dirty"}

ColumnBase(name) ==
    CASE name = s_Close -> 10 [] name = s_AdjClose -> 20 [] name = s_Open -> 30
      [] name = s_High -> 40 [] name = s_Low -> 50 [] name = s_Volume -> 60
      [] OTHER -> 0

TimeCells(q) ==
    [i \in 1..RawRows |-> IF q = "badtime" /\ i = RawRows THEN StrCell ELSE TsCell(i)]

RawCells(name, q) ==
    IF name \in {s_Datetime, s_Date} THEN TimeCells(q)
    ELSE [i \in 1..RawRows |->
            IF q = "dirty" /\ i = RawRows THEN StrCell
            ELSE NumCell(ColumnBase(name) + i)]

IndexCells(r) ==
    IF r.index_name = None THEN [i \in 1..RawRows |-> NumCell(i - 1)]
    ELSE TimeCells(r.quality)

\* The columns of a snapshot: the price columns P in provider order, with the
\* time-like columns T placed at the positions pos.
Interleave(P, T, pos) ==
    LET prices == SelectSeq(PriceColumns, LAMBDA c : c \in P)
    IN  [i \in 1..(Len(prices) + Len(T)) |->
            IF i \in pos THEN T[Cardinality({j \in pos : j <= i})]
            ELSE prices[i - Cardinality({j \in pos : j < i})]]

RawColumnLists ==
    UNION {UNION {{Interleave(P, T, pos) :
                     pos \in {S \in SUBSET (1..(Cardinality(P) + Len(T))) :
                                Cardinality(S) = Len(T)}} :
                  T \in TimeColumns} :
           P \in SUBSET Range(PriceColumns)}

RawSnapshots ==
    {[index_name |-> ix, columns |-> cs, quality |-> q] :
        ix \in IndexNames, cs \in RawColumnLists, q \in Qualities}

(***************************************************************************)
(* normalize_df                                                            *)
(***************************************************************************)
Raised(exc, line, dtc) ==
    [err |-> [exc |-> exc, line |-> line], dtc |-> dtc, table |-> NoTable]

\* df = df.copy(); df.columns = df.columns.str.lower()
LoweredFrame(r) ==
    LET cols == [i \in DOMAIN r.columns |-> Lower(r.columns[i])]
    IN  [columns |-> cols,
         data |-> [c \in Range(cols) |->
                     RawCells(r.columns[CHOOSE i \in DOMAIN cols : cols[i] = c],
                              r.quality)]]

\* df.reset_index(inplace=True): the index becomes the leftmost column.
ResetIndexName(r, d) ==
    IF r.index_name # None THEN r.index_name
    ELSE IF s_index \in Range(d.columns) THEN s_level_0 ELSE s_index

ResetIndex(r, d) ==
    LET name == ResetIndexName(r, d)
    IN  [columns |-> <<name>> \o d.columns,
         data |-> [c \in Range(d.columns) \cup {name} |->
                     IF c = name THEN IndexCells(r) ELSE d.data[c]]]

IsTimestampName(c) == Lower(c) \in {s_datetime, s_date, s_index}

\* for col in df.columns: if col.lower() in [...]: datetime_col = col; break
FindDatetimeCol(d) == FirstWhere(d.columns, {c \in Range(d.columns) : IsTimestampName(c)})

\* df["volume"] = pd.to_numeric(df[detect_volume_column(df)], ...); return df
SetVolume(d, dtc) ==
    LET vc == detect_volume_column(d)
    IN  IF vc = None THEN Raised("ValueError", 29, dtc)
        ELSE [err |-> NoError, dtc |-> dtc,
              table |-> SetColumn(d, s_volume, ToNumeric(d.data[vc]))]

\* df["low"] = pd.to_numeric(df[detect_low_column(df)], ...): df[None] is a KeyError
SetLow(d, dtc) ==
    LET lc == detect_low_column(d)
    IN  IF lc = None THEN Raised("KeyError", 71, dtc)
        ELSE SetVolume(SetColumn(d, s_low, ToNumeric(d.data[lc])), dtc)

\* df["high"] = pd.to_numeric(df[detect_high_column(df)], ...)
SetHigh(d, dtc) ==
    LET hc == detect_high_column(d)
    IN  IF hc = None THEN Raised("KeyError", 70, dtc)
        ELSE SetLow(SetColumn(d, s_high, ToNumeric(d.data[hc])), dtc)

\* df["open"] = pd.to_numeric(df[detect_open_column(df)], ...)
SetOpen(d, dtc) ==
    LET oc == detect_open_column(d)
    IN  IF oc = None THEN Raised("KeyError", 69, dtc)
        ELSE SetHigh(SetColumn(d, s_open, ToNumeric(d.data[oc])), dtc)

\* df["close"] = pd.to_numeric(df[detect_close_column(df)], ...)
SetClose(d, dtc) ==
    LET cc == detect_close_column(d)
    IN  IF cc = None THEN Raised("ValueError", 16, dtc)
        ELSE SetOpen(SetColumn(d, s_close, ToNumeric(d.data[cc])), dtc)

\* df["Datetime"] = pd.to_datetime(df[datetime_col]): df[None] is a KeyError
SetDatetime(d, dtc) ==
    IF dtc = None THEN Raised("KeyError", 65, None)
    ELSE IF ~Parseable(d.data[dtc]) THEN Raised("DateParseError", 65, dtc)
    ELSE SetClose(SetColumn(d, s_Datetime, ToDatetime(d.data[dtc])), dtc)

\* The lowered frame d after reset_index, which fails when the index name is
\* already a column.
AfterLower(r, d) ==
    IF ResetIndexName(r, d) \in Range(d.columns) THEN Raised("ValueError", 56, None)
    ELSE SetDatetime(ResetIndex(r, d), FindDatetimeCol(ResetIndex(r, d)))

NormalizeDf(r) == AfterLower(r, LoweredFrame(r))

(***************************************************************************)
(* Specification of the normalizer                                         *)
(***************************************************************************)
NormInit ==
    /\ pc = "fetched"
    /\ raw \in RawSnapshots
    /\ datetime_col = None
    /\ err = NoError
    /\ ndf = NoTable
    /\ strategy_name = "none"
    /\ params = << >>
    /\ df = << >>
    /\ df0 = << >>
    /\ ret = << >>

normalize_df ==
    /\ pc = "fetched"
    /\ LET res == NormalizeDf(raw)
       IN  /\ err' = res.err
           /\ datetime_col' = res.dtc
           /\ ndf' = res.table
           /\ pc' = IF res.err = NoError THEN "normalized" ELSE "raised"
    /\ UNCHANGED raw
    /\ UNCHANGED svars

NormNext == normalize_df

SpecNorm == NormInit /\ [][NormNext]_vars

(***************************************************************************)
(* float64 values as exact extended rationals: NaN, +-inf, +-0 and n/d     *)
(***************************************************************************)
RECURSIVE GCD(_, _)
GCD(a, b) == IF b = 0 THEN a ELSE GCD(b, a % b)

Abs(x) == IF x < 0 THEN -x ELSE x

NaN == [k |-> "nan", n |-> 0, d |-> 1]

PInf == [k |-> "inf", n |-> 1, d |-> 1]

NInf == [k |-> "inf", n |-> -1, d |-> 1]

PZero == [k |-> "num", n |-> 0, d |-> 1]

NZero == [k |-> "negzero", n |-> 0, d |-> 1]

Num(n, d) ==
    LET g == GCD(Abs(n), Abs(d))
        sg == IF d < 0 THEN -1 ELSE 1
    IN  [k |-> "num", n |-> (sg * n) \div g, d |-> (sg * d) \div g]

FromInt(i) == [k |-> "num", n |-> i, d |-> 1]

IsNaN(x) == x.k = "nan"

IsInf(x) == x.k = "inf"

IsZero(x) == x.k = "negzero" \/ (x.k = "num" /\ x.n = 0)

SignBit(x) == x.k = "negzero" \/ x.n < 0

Inf(neg) == IF neg THEN NInf ELSE PInf

Zero(neg) == IF neg THEN NZero ELSE PZero

FNeg(x) ==
    CASE IsNaN(x) -> NaN
      [] IsInf(x) -> Inf(~SignBit(x))
      [] IsZero(x) -> Zero(~SignBit(x))
      [] OTHER -> [x EXCEPT !.n = -x.n]

FAdd(x, y) ==
    CASE IsNaN(x) \/ IsNaN(y) -> NaN
      [] IsInf(x) /\ IsInf(y) -> IF x.n = y.n THEN x ELSE NaN
      [] IsInf(x) -> x
      [] IsInf(y) -> y
      [] OTHER ->
           LET n == x.n * y.d + y.n * x.d
           IN  IF n = 0 THEN Zero(x.k = "negzero" /\ y.k = "negzero")
               ELSE Num(n, x.d * y.d)

FSub(x, y) == FAdd(x, FNeg(y))

FMul(x, y) ==
    CASE IsNaN(x) \/ IsNaN(y) -> NaN
      [] IsInf(x) \/ IsInf(y) ->
           IF IsZero(x) \/ IsZero(y) THEN NaN ELSE Inf(SignBit(x) # SignBit(y))
      [] IsZero(x) \/ IsZero(y) -> Zero(SignBit(x) # SignBit(y))
      [] OTHER -> Num(x.n * y.n, x.d * y.d)

\* Variant: a division by zero gives NaN instead of an infinity.
FDivNaNOnZero(x, y) ==
    CASE IsNaN(x) \/ IsNaN(y) -> NaN
      [] IsInf(x) -> IF IsInf(y) THEN NaN ELSE Inf(SignBit(x) # SignBit(y))
      [] IsInf(y) -> Zero(SignBit(x) # SignBit(y))
      [] IsZero(y) -> NaN
      [] IsZero(x) -> Zero(SignBit(x) # SignBit(y))
      [] OTHER -> Num(x.n * y.d, x.d * y.n)

\* numpy division: x/0 is +-inf, 0/0 is NaN, nothing raises.
FDiv(x, y) ==
    CASE IsNaN(x) \/ IsNaN(y) -> NaN
      [] IsInf(x) -> IF IsInf(y) THEN NaN ELSE Inf(SignBit(x) # SignBit(y))
      [] IsInf(y) -> Zero(SignBit(x) # SignBit(y))
      [] IsZero(y) -> IF IsZero(x) THEN NaN ELSE Inf(SignBit(x) # SignBit(y))
      [] IsZero(x) -> Zero(SignBit(x) # SignBit(y))
      [] OTHER -> Num(x.n * y.d, x.d * y.n)

\* Comparisons with NaN are False.
FLt(x, y) ==
    /\ ~IsNaN(x)
    /\ ~IsNaN(y)
    /\ IF IsInf(x) THEN x.n = -1 /\ ~(IsInf(y) /\ y.n = -1)
       ELSE IF IsInf(y) THEN y.n = 1
       ELSE x.n * y.d < y.n * x.d

FGt(x, y) == FLt(y, x)

\* a + s*sqrt(r), s in {1, -1}, a and r finite, r >= 0; NaN when a or r is.
Surd(a, s, r) ==
    IF IsNaN(a) \/ IsNaN(r) THEN NaN ELSE [k |-> "surd", a |-> a, s |-> s, r |-> r]

\* x < a + s*sqrt(r)
FLtSurd(x, u) ==
    /\ ~IsNaN(x)
    /\ ~IsNaN(u)
    /\ LET t == FSub(x, u.a)
           neg == FLt(t, PZero)
       IN  IF u.s = 1 THEN neg \/ FLt(FMul(t, t), u.r)
           ELSE neg /\ FGt(FMul(t, t), u.r)

\* x > a + s*sqrt(r)
FGtSurd(x, u) ==
    /\ ~IsNaN(x)
    /\ ~IsNaN(u)
    /\ LET t == FSub(x, u.a)
           pos == FGt(t, PZero)
       IN  IF u.s = 1 THEN pos /\ FGt(FMul(t, t), u.r)
           ELSE pos \/ FLt(FMul(t, t), u.r)

(***************************************************************************)
(* pandas Series operations used by the strategies                         *)
(***************************************************************************)
RECURSIVE SumOf(_)
SumOf(w) == IF w = << >> THEN PZero ELSE FAdd(SumOf(SubSeq(w, 1, Len(w) - 1)), w[Len(w)])

MeanOf(w) == FDiv(SumOf(w), FromInt(Len(w)))

MaxOf(w) == CHOOSE x \in Range(w) : \A y \in Range(w) : ~FLt(x, y)

MinValOf(w) == CHOOSE x \in Range(w) : \A y \in Range(w) : ~FLt(y, x)

\* Sample variance (ddof=1); a window of one observation has none.
VarOf(w) ==
    IF Len(w) < 2 THEN NaN
    ELSE LET m == MeanOf(w)
             sq == [i \in DOMAIN w |-> FMul(FSub(w[i], m), FSub(w[i], m))]
         IN  FDiv(SumOf(sq), FromInt(Len(w) - 1))

\* The window of Series.rolling(w) at row i: min_periods = w, so a short window
\* or a window holding a NaN is no window.
Window(x, w, i) ==
    IF i >= w /\ \A j \in (i - w + 1)..i : ~IsNaN(x[j])
    THEN SubSeq(x, i - w + 1, i)
    ELSE << >>

\* Series.rolling(w).mean()
RollingMean(x, w) ==
    [i \in DOMAIN x |-> IF Window(x, w, i) = << >> THEN NaN ELSE MeanOf(Window(x, w, i))]

\* Series.rolling(w).std(), squared
RollingVar(x, w) ==
    [i \in DOMAIN x |-> IF Window(x, w, i) = << >> THEN NaN ELSE VarOf(Window(x, w, i))]

\* Series.rolling(w).max()
RollingMax(x, w) ==
    [i \in DOMAIN x |-> IF Window(x, w, i) = << >> THEN NaN ELSE MaxOf(Window(x, w, i))]

\* Series.rolling(w).min()
RollingMin(x, w) ==
    [i \in DOMAIN x |-> IF Window(x, w, i) = << >> THEN NaN ELSE MinValOf(Window(x, w, i))]

\* Series.diff(k)
Diff(x, k) == [i \in DOMAIN x |-> IF i > k THEN FSub(x[i], x[i - k]) ELSE NaN]

\* Series.clip(lower=0)
ClipLower0(x) == [i \in DOMAIN x |-> IF FLt(x[i], PZero) THEN PZero ELSE x[i]]

\* Series.clip(upper=0)
ClipUpper0(x) == [i \in DOMAIN x |-> IF FGt(x[i], PZero) THEN PZero ELSE x[i]]

\* Series.cumsum(): skipna, a NaN row stays NaN and is left out of the sum.
CumSum(x) ==
    [i \in DOMAIN x |->
        IF IsNaN(x[i]) THEN NaN
        ELSE SumOf(SelectSeq(SubSeq(x, 1, i), LAMBDA v : ~IsNaN(v)))]

\* -Series
Negate(x) == [i \in DOMAIN x |-> FNeg(x[i])]

\* df[name] = col: the table object gains the column, or has it replaced.
Assign(t, name, col) ==
    [c \in DOMAIN t \cup {name} |-> IF c = name THEN col ELSE t[c]]

\* df.loc[mask, "signal"] = v
LocSet(sig, mask, v) == [i \in DOMAIN sig |-> IF mask[i] THEN v ELSE sig[i]]

Zeros(x) == [i \in DOMAIN x |-> 0]

\* (a > b).astype(int) - (a < b).astype(int)
SignCompare(a, b) ==
    [i \in DOMAIN a |->
        (IF FGt(a[i], b[i]) THEN 1 ELSE 0) - (IF FLt(a[i], b[i]) THEN 1 ELSE 0)]

(***************************************************************************)
(* The strategies                                                          *)
(***************************************************************************)
\* Variant: a row without a strict comparison keeps the previous row's signal.
strat_ma_ffill(t, fast, slow) ==
    LET ma_fast == RollingMean(t["close"], fast)
        ma_slow == RollingMean(t["close"], slow)
        sig[i \in DOMAIN t["close"]] ==
            IF FGt(ma_fast[i], ma_slow[i]) THEN 1
            ELSE IF FLt(ma_fast[i], ma_slow[i]) THEN -1
            ELSE IF i = 1 THEN 0 ELSE sig[i - 1]
    IN  Assign(Assign(Assign(t, "ma_fast", ma_fast), "ma_slow", ma_slow), "signal", sig)

strat_ma(t, fast, slow) ==
    LET ma_fast == RollingMean(t["close"], fast)
        ma_slow == RollingMean(t["close"], slow)
        s0 == Zeros(t["close"])
        s1 == LocSet(s0, [i \in DOMAIN ma_fast |-> FGt(ma_fast[i], ma_slow[i])], 1)
        s2 == LocSet(s1, [i \in DOMAIN ma_fast |-> FLt(ma_fast[i], ma_slow[i])], -1)
    IN  Assign(Assign(Assign(t, "ma_fast", ma_fast), "ma_slow", ma_slow), "signal", s2)

\* Series.rolling(w, min_periods=1).mean(): any window holding an observation.
RollingMeanMin1(x, w) ==
    [i \in DOMAIN x |->
        LET win == SelectSeq(SubSeq(x, IF i > w THEN i - w + 1 ELSE 1, i),
                             LAMBDA v : ~IsNaN(v))
        IN  IF win = << >> THEN NaN ELSE MeanOf(win)]

RsiOversold == 30

RsiOverbought == 70

\* Variant: the rolling means are taken with min_periods=1.
strat_rsi_minperiods(t, length) ==
    LET delta == Diff(t["close"], 1)
        gain == RollingMeanMin1(ClipLower0(delta), length)
        loss == Negate(RollingMeanMin1(ClipUpper0(delta), length))
        rs == [i \in DOMAIN gain |-> FDiv(gain[i], loss[i])]
        rsi == [i \in DOMAIN rs |->
                  FSub(FromInt(100), FDiv(FromInt(100), FAdd(FromInt(1), rs[i])))]
        s0 == Zeros(t["close"])
        s1 == LocSet(s0, [i \in DOMAIN rsi |-> FLt(rsi[i], FromInt(RsiOversold))], 1)
        s2 == LocSet(s1, [i \in DOMAIN rsi |-> FGt(rsi[i], FromInt(RsiOverbought))], -1)
    IN  Assign(Assign(t, "rsi", rsi), "signal", s2)

\* Variant: the mean loss keeps its sign (the leading minus is dropped).
strat_rsi_signed_loss(t, length) ==
    LET delta == Diff(t["close"], 1)
        gain == RollingMean(ClipLower0(delta), length)
        loss == RollingMean(ClipUpper0(delta), length)
        rs == [i \in DOMAIN gain |-> FDiv(gain[i], loss[i])]
        rsi == [i \in DOMAIN rs |->
                  FSub(FromInt(100), FDiv(FromInt(100), FAdd(FromInt(1), rs[i])))]
        s0 == Zeros(t["close"])
        s1 == LocSet(s0, [i \in DOMAIN rsi |-> FLt(rsi[i], FromInt(RsiOversold))], 1)
        s2 == LocSet(s1, [i \in DOMAIN rsi |-> FGt(rsi[i], FromInt(RsiOverbought))], -1)
    IN  Assign(Assign(t, "rsi", rsi), "signal", s2)

strat_rsi(t, length) ==
    LET delta == Diff(t["close"], 1)
        gain == RollingMean(ClipLower0(delta), length)
        loss == Negate(RollingMean(ClipUpper0(delta), length))
        rs == [i \in DOMAIN gain |-> FDiv(gain[i], loss[i])]
        rsi == [i \in DOMAIN rs |->
                  FSub(FromInt(100), FDiv(FromInt(100), FAdd(FromInt(1), rs[i])))]
        s0 == Zeros(t["close"])
        s1 == LocSet(s0, [i \in DOMAIN rsi |-> FLt(rsi[i], FromInt(RsiOversold))], 1)
        s2 == LocSet(s1, [i \in DOMAIN rsi |-> FGt(rsi[i], FromInt(RsiOverbought))], -1)
    IN  Assign(Assign(t, "rsi", rsi), "signal", s2)

strat_bbands(t, length, mult) ==
    LET ma == RollingMean(t["close"], length)
        var == RollingVar(t["close"], length)
        std == [i \in DOMAIN var |-> Surd(PZero, 1, var[i])]
        band == [i \in DOMAIN var |-> FMul(FromInt(mult * mult), var[i])]
        upper == [i \in DOMAIN ma |-> Surd(ma[i], 1, band[i])]
        lower == [i \in DOMAIN ma |-> Surd(ma[i], -1, band[i])]
        s0 == Zeros(t["close"])
        s1 == LocSet(s0, [i \in DOMAIN t["close"] |-> FLtSurd(t["close"][i], lower[i])], 1)
        s2 == LocSet(s1, [i \in DOMAIN t["close"] |-> FGtSurd(t["close"][i], upper[i])], -1)
    IN  Assign(Assign(Assign(Assign(Assign(t, "ma", ma), "std", std),
                             "upper", upper), "lower", lower), "signal", s2)

\* Variant: the trailing extremes are taken over the rows before the current
\* one (rolling(length).max().shift(1)).
strat_breakout_shifted(t, length) ==
    LET high == RollingMax(t["close"], length)
        low == RollingMin(t["close"], length)
        recent_high == [i \in DOMAIN high |-> IF i = 1 THEN NaN ELSE high[i - 1]]
        recent_low == [i \in DOMAIN low |-> IF i = 1 THEN NaN ELSE low[i - 1]]
        s0 == Zeros(t["close"])
        s1 == LocSet(s0, [i \in DOMAIN t["close"] |-> FGt(t["close"][i], recent_high[i])], 1)
        s2 == LocSet(s1, [i \in DOMAIN t["close"] |-> FLt(t["close"][i], recent_low[i])], -1)
    IN  Assign(Assign(Assign(t, "recent_high", recent_high),
                      "recent_low", recent_low), "signal", s2)

strat_breakout(t, length) ==
    LET recent_high == RollingMax(t["close"], length)
        recent_low == RollingMin(t["close"], length)
        s0 == Zeros(t["close"])
        s1 == LocSet(s0, [i \in DOMAIN t["close"] |-> FGt(t["close"][i], recent_high[i])], 1)
        s2 == LocSet(s1, [i \in DOMAIN t["close"] |-> FLt(t["close"][i], recent_low[i])], -1)
    IN  Assign(Assign(Assign(t, "recent_high", recent_high),
                      "recent_low", recent_low), "signal", s2)

\* Variant: the cumulative volume is written back over the volume column.
strat_vwap_inplace(t) ==
    LET cum_vol == CumSum(t["volume"])
        cum_pv == CumSum([i \in DOMAIN t["close"] |-> FMul(t["close"][i], t["volume"][i])])
        vwap == [i \in DOMAIN cum_pv |-> FDiv(cum_pv[i], cum_vol[i])]
    IN  Assign(Assign(Assign(Assign(Assign(t, "volume", cum_vol), "cum_vol", cum_vol),
                             "cum_pv", cum_pv),
                      "vwap", vwap), "signal", SignCompare(t["close"], vwap))

strat_vwap(t) ==
    LET cum_vol == CumSum(t["volume"])
        cum_pv == CumSum([i \in DOMAIN t["close"] |-> FMul(t["close"][i], t["volume"][i])])
        vwap == [i \in DOMAIN cum_pv |-> FDiv(cum_pv[i], cum_vol[i])]
    IN  Assign(Assign(Assign(Assign(t, "cum_vol", cum_vol), "cum_pv", cum_pv),
                      "vwap", vwap), "signal", SignCompare(t["close"], vwap))

strat_momentum(t, length) ==
    LET mom == Diff(t["close"], length)
        zero == [i \in DOMAIN mom |-> PZero]
    IN  Assign(Assign(t, "mom", mom), "signal", SignCompare(mom, zero))

(***************************************************************************)
(* Exact arithmetic for the exponentially weighted means of MACD: naturals *)
(* are little-endian limb sequences, integers carry a sign, and a rational *)
(* is a pair n/d with d > 0.                                               *)
(***************************************************************************)
Base == 100 * 100

Limb(a, i) == IF i <= Len(a) THEN a[i] ELSE 0

RECURSIVE BTrim(_)
BTrim(a) ==
    IF a = << >> THEN a
    ELSE IF a[Len(a)] = 0 THEN BTrim(SubSeq(a, 1, Len(a) - 1)) ELSE a

RECURSIVE BFromNat(_)
BFromNat(n) == IF n = 0 THEN << >> ELSE <<n % Base>> \o BFromNat(n \div Base)

RECURSIVE BAddAt(_, _, _, _)
BAddAt(a, b, i, c) ==
    IF i > Len(a) /\ i > Len(b) THEN (IF c = 0 THEN << >> ELSE <<c>>)
    ELSE LET v == Limb(a, i) + Limb(b, i) + c
         IN  <<v % Base>> \o BAddAt(a, b, i + 1, v \div Base)

BAdd(a, b) == BTrim(BAddAt(a, b, 1, 0))

RECURSIVE BSubAt(_, _, _, _)
BSubAt(a, b, i, borrow) ==
    IF i > Len(a) THEN << >>
    ELSE LET v == a[i] - Limb(b, i) - borrow
         IN  IF v < 0 THEN <<v + Base>> \o BSubAt(a, b, i + 1, 1)
             ELSE <<v>> \o BSubAt(a, b, i + 1, 0)

\* a - b for a >= b
BSub(a, b) == BTrim(BSubAt(a, b, 1, 0))

RECURSIVE BCmpAt(_, _, _)
BCmpAt(a, b, i) ==
    IF i = 0 THEN 0
    ELSE IF a[i] # b[i] THEN (IF a[i] < b[i] THEN -1 ELSE 1)
    ELSE BCmpAt(a, b, i - 1)

BCmp(a, b) ==
    IF Len(a) # Len(b) THEN (IF Len(a) < Len(b) THEN -1 ELSE 1)
    ELSE BCmpAt(a, b, Len(a))

RECURSIVE BMulSmallAt(_, _, _, _)
BMulSmallAt(a, m, i, c) ==
    IF i > Len(a) THEN (IF c = 0 THEN << >> ELSE <<c>>)
    ELSE LET v == a[i] * m + c
         IN  <<v % Base>> \o BMulSmallAt(a, m, i + 1, v \div Base)

RECURSIVE BMulAt(_, _, _)
BMulAt(a, b, j) ==
    IF j > Len(b) THEN << >>
    ELSE BAddAt(BMulSmallAt(a, b[j], 1, 0), <<0>> \o BMulAt(a, b, j + 1), 1, 0)

BMul(a, b) == BTrim(BMulAt(a, b, 1))

ZFromInt(i) ==
    [s |-> IF i < 0 THEN -1 ELSE IF i = 0 THEN 0 ELSE 1, m |-> BFromNat(Abs(i))]

ZNeg(a) == [a EXCEPT !.s = -a.s]

ZAdd(a, b) ==
    CASE a.s = 0 -> b
      [] b.s = 0 -> a
      [] a.s = b.s -> [s |-> a.s, m |-> BAdd(a.m, b.m)]
      [] OTHER ->
           LET c == BCmp(a.m, b.m)
           IN  IF c = 0 THEN ZFromInt(0)
               ELSE IF c = 1 THEN [s |-> a.s, m |-> BSub(a.m, b.m)]
               ELSE [s |-> b.s, m |-> BSub(b.m, a.m)]

ZMul(a, b) ==
    IF a.s = 0 \/ b.s = 0 THEN ZFromInt(0)
    ELSE [s |-> a.s * b.s, m |-> BMul(a.m, b.m)]

\* the sign of a - b
ZCmp(a, b) == ZAdd(a, ZNeg(b)).s

QMake(n, d) == [k |-> "big", n |-> n, d |-> d]

QZero == QMake(ZFromInt(0), ZFromInt(1))

QFromFloat(x) == IF IsNaN(x) THEN NaN ELSE QMake(ZFromInt(x.n), ZFromInt(x.d))

QAdd(a, b) ==
    CASE IsNaN(a) \/ IsNaN(b) -> NaN
      [] a.n.s = 0 -> b
      [] b.n.s = 0 -> a
      [] a.d = b.d -> QMake(ZAdd(a.n, b.n), a.d)
      [] OTHER -> QMake(ZAdd(ZMul(a.n, b.d), ZMul(b.n, a.d)), ZMul(a.d, b.d))

QNeg(a) == IF IsNaN(a) THEN NaN ELSE QMake(ZNeg(a.n), a.d)

QSub(a, b) == QAdd(a, QNeg(b))

\* a * i and a / i for an integer i > 0
QScale(a, i) == IF IsNaN(a) THEN NaN ELSE QMake(ZMul(a.n, ZFromInt(i)), a.d)

QOver(a, i) == IF IsNaN(a) THEN NaN ELSE QMake(a.n, ZMul(a.d, ZFromInt(i)))

QLt(a, b) == ~IsNaN(a) /\ ~IsNaN(b) /\ ZCmp(ZMul(a.n, b.d), ZMul(b.n, a.d)) < 0

QGt(a, b) == QLt(b, a)

RECURSIVE Pow(_, _)
Pow(b, e) == IF e = 0 THEN 1 ELSE b * Pow(b, e - 1)

\* Series.ewm(span=span).mean() with the defaults adjust=True, ignore_na=False,
\* min_periods=0: row i is sum(w_j * x_j) / sum(w_j) over the observed rows
\* j <= i, w_j = ((span-1)/(span+1))^(i-j); undefined until the first observation.
\* EwmSums keeps both sums multiplied by (span+1)^(i-1), which leaves them exact.
RECURSIVE EwmSums(_, _, _)
EwmSums(x, span, i) ==
    IF i = 0 THEN [n |-> QZero, w |-> 0]
    ELSE LET prev == EwmSums(x, span, i - 1)
             scale == Pow(span + 1, i - 1)
         IN  IF IsNaN(x[i])
             THEN [n |-> QScale(prev.n, span - 1), w |-> prev.w * (span - 1)]
             ELSE [n |-> QAdd(QScale(prev.n, span - 1), QScale(x[i], scale)),
                   w |-> prev.w * (span - 1) + scale]

Ewm(x, span) ==
    [i \in DOMAIN x |->
        LET st == EwmSums(x, span, i)
        IN  IF st.w = 0 THEN NaN ELSE QOver(st.n, st.w)]

strat_macd(t) ==
    LET close == [i \in DOMAIN t["close"] |-> QFromFloat(t["close"][i])]
        ema12 == Ewm(close, 12)
        ema26 == Ewm(close, 26)
        macd == [i \in DOMAIN ema12 |-> QSub(ema12[i], ema26[i])]
        signal_line == Ewm(macd, 9)
        hist == [i \in DOMAIN macd |-> QSub(macd[i], signal_line[i])]
        signal == [i \in DOMAIN macd |->
                     (IF QGt(macd[i], signal_line[i]) THEN 1 ELSE 0)
                     - (IF QLt(macd[i], signal_line[i]) THEN 1 ELSE 0)]
    IN  Assign(Assign(Assign(Assign(Assign(Assign(t, "ema12", ema12), "ema26", ema26),
                                    "macd", macd), "signal_line", signal_line),
                      "hist", hist), "signal", signal)

(***************************************************************************)
(* One evaluation cycle: STRATEGY_MAP[strategy_name](df)                   *)
(***************************************************************************)
STRATEGY_MAP ==
    {"MA Crossover", "RSI", "MACD", "Bollinger Bands", "Breakout", "VWAP", "Momentum"}

PriceVals == {FromInt(v) : v \in 1..MaxPrice} \cup {NaN}

VolVals == {FromInt(v) : v \in 0..MaxVol}

\* The tables a strategy is called on.  Only strat_vwap reads the volume
\* column, so the other strategies are run on a flat volume column.
NormalizedTables(name) ==
    UNION {{[close |-> c, volume |-> v] :
               c \in [1..n -> PriceVals],
               v \in IF name = "VWAP" THEN [1..n -> VolVals]
                     ELSE {[i \in 1..n |-> FromInt(1)]}} :
           n \in 0..MaxRows}

NoRaw == [index_name |-> None, columns |-> << >>, quality |-> "clean"]

Init ==
    /\ pc = "ready"
    /\ raw = NoRaw
    /\ datetime_col = None
    /\ err = NoError
    /\ ndf = NoTable
    /\ strategy_name \in STRATEGY_MAP
    /\ df \in NormalizedTables(strategy_name)
    /\ df0 = df
    /\ ret = << >>
    /\ params = << >>

\* A strategy is called when it is the selected one; a second cycle on the same
\* table calls it again with the same parameters.
Selected(name, p) ==
    /\ strategy_name = name
    /\ pc \in {"ready", "evaluated"}
    /\ pc = "evaluated" => params = p

\* "return df": the call hands back the table object it was given and has
\* written to, so the caller's table and the returned one are the same object.
Returns(t, p) ==
    /\ df' = t
    /\ ret' = t
    /\ params' = p
    /\ pc' = IF pc = "ready" THEN "evaluated" ELSE "reevaluated"
    /\ UNCHANGED <<strategy_name, df0>>
    /\ UNCHANGED nvars_but_pc

ma ==
    \E fast, slow \in 1..MaxWin :
        /\ Selected("MA Crossover", [fast |-> fast, slow |-> slow])
        /\ Returns(strat_ma(df, fast, slow), [fast |-> fast, slow |-> slow])

rsi ==
    \E length \in 1..MaxWin :
        /\ Selected("RSI", [length |-> length])
        /\ Returns(strat_rsi(df, length), [length |-> length])

macd ==
    /\ Selected("MACD", << >>)
    /\ Returns(strat_macd(df), << >>)

bbands ==
    \E length \in 1..MaxWin, mult \in 1..MaxMult :
        /\ Selected("Bollinger Bands", [length |-> length, mult |-> mult])
        /\ Returns(strat_bbands(df, length, mult), [length |-> length, mult |-> mult])

breakout ==
    \E length \in 1..MaxWin :
        /\ Selected("Breakout", [length |-> length])
        /\ Returns(strat_breakout(df, length), [length |-> length])

vwap ==
    /\ Selected("VWAP", << >>)
    /\ Returns(strat_vwap(df), << >>)

momentum ==
    \E length \in 1..MaxWin :
        /\ Selected("Momentum", [length |-> length])
        /\ Returns(strat_momentum(df, length), [length |-> length])

Next == ma \/ rsi \/ macd \/ bbands \/ breakout \/ vwap \/ momentum

Spec == Init /\ [][Next]_vars

(***************************************************************************)
(* Properties of normalize_df (checked under SpecNorm)                     *)
(***************************************************************************)
Returned == pc \in {"normalized", "raised"}

\* The labels normalize_df searches, as the snapshot gives them: the index
\* first (an unnamed index is labelled "index"), then the columns left to right.
IndexLabel(r) == IF r.index_name = None THEN s_index ELSE r.index_name

Labels(r) == <<IndexLabel(r)>> \o r.columns

HasLike(r, pat) == \E i \in DOMAIN Labels(r) : Contains(Lower(Labels(r)[i]), pat)

TimestampLabels(r) ==
    {i \in DOMAIN Labels(r) : Lower(Labels(r)[i]) \in {s_datetime, s_date, s_index}}

HasMandatory(r) ==
    /\ TimestampLabels(r) # {}
    /\ r.quality # "badtime"
    /\ HasLike(r, s_close)
    /\ HasLike(r, s_vol)

AllNaNCells(cells) == \A i \in DOMAIN cells : cells[i] = NaNCell

\* C2: a snapshot with resolvable timestamp, close and volume columns but no
\* open-like column normalizes with open equal to close on every row; without a
\* high-like (low-like) column it normalizes with high (low) NaN on every row.
C2_OptionalColumnsDefault ==
    (Returned /\ HasMandatory(raw)) =>
        /\ ~HasLike(raw, s_open) =>
              /\ err = NoError
              /\ ndf.data[s_open] = ndf.data[s_close]
        /\ ~HasLike(raw, s_high) =>
              /\ err = NoError
              /\ AllNaNCells(ndf.data[s_high])
        /\ ~HasLike(raw, s_low) =>
              /\ err = NoError
              /\ AllNaNCells(ndf.data[s_low])

\* The error the detectors raise themselves ("No CLOSE-like column found!",
\* "No VOLUME column found!").
IsSchemaError(e) == e.exc = "ValueError" /\ e.line \in {16, 29}

\* C3: a snapshot with no timestamp column, or no close-like column, or no
\* volume-like column fails with the schema error and yields no table.
C3_MissingMandatoryIsSchemaError ==
    (/\ Returned
     /\ \/ TimestampLabels(raw) = {}
        \/ ~HasLike(raw, s_close)
        \/ ~HasLike(raw, s_vol))
    => (IsSchemaError(err) /\ ndf = NoTable)

PresentNames(r) == {Lower(Labels(r)[i]) : i \in TimestampLabels(r)}

\* C4: the timestamp column is chosen by name, datetime before date
\* before index, wherever the columns stand.
C4_TimestampByNamePriority ==
    (Returned /\ datetime_col # None) =>
        Lower(datetime_col) =
            IF s_datetime \in PresentNames(raw) THEN s_datetime
            ELSE IF s_date \in PresentNames(raw) THEN s_date
            ELSE s_index

\* What the loop does instead: it takes the leftmost label, the index first and
\* then the columns left to right, whose lower-cased name is datetime, date or
\* index; without one, normalize_df fails with KeyError.
TimestampIsLeftmostMatch ==
    Returned =>
        IF TimestampLabels(raw) = {}
        THEN datetime_col = None /\ err = [exc |-> "KeyError", line |-> 65]
        ELSE LET i == MinOf(TimestampLabels(raw))
             IN  datetime_col = IF i = 1 THEN Labels(raw)[1] ELSE Lower(Labels(raw)[i])

\* A date column standing left of a datetime column is the one chosen.
DateLeftOfDatetime ==
    /\ pc = "normalized"
    /\ raw.index_name = s_Time
    /\ s_datetime \in PresentNames(raw)
    /\ datetime_col = s_date

(***************************************************************************)
(* Properties of the strategies (checked under Spec)                       *)
(***************************************************************************)
Evaluated == pc \in {"evaluated", "reevaluated"}

Ran(name) == Evaluated /\ strategy_name = name

Rows == DOMAIN df0["close"]

Close(i) == df0["close"][i]

RECURSIVE IntSum(_)
IntSum(w) == IF w = << >> THEN 0 ELSE w[1].n + IntSum(Tail(w))

\* Rows i-w+1..i exist and hold a close each.
FullWindow(i, w) == i >= w /\ \A j \in (i - w + 1)..i : ~IsNaN(Close(j))

\* w2 * (sum of the last w1 closes) - w1 * (sum of the last w2 closes): the sign
\* of mean(w1) - mean(w2).
MeanGap(i, w1, w2) ==
    w2 * IntSum(SubSeq(df0["close"], i - w1 + 1, i))
    - w1 * IntSum(SubSeq(df0["close"], i - w2 + 1, i))

BothMeans(i) == FullWindow(i, params.fast) /\ FullWindow(i, params.slow)

FastAbove(i) == BothMeans(i) /\ MeanGap(i, params.fast, params.slow) > 0

FastBelow(i) == BothMeans(i) /\ MeanGap(i, params.fast, params.slow) < 0

\* C1 as claimed: a row with neither ma_fast > ma_slow nor ma_fast < ma_slow
\* (a tie, or an undefined average) keeps the signal of the previous row.
C1_TieKeepsPreviousSignal ==
    Ran("MA Crossover") =>
        \A i \in Rows :
            df["signal"][i] =
                IF FastAbove(i) THEN 1
                ELSE IF FastBelow(i) THEN -1
                ELSE IF i = 1 THEN 0 ELSE df["signal"][i - 1]

\* C1 amended: +1 where ma_fast > ma_slow, -1 where ma_fast < ma_slow, and 0 on
\* every other row (tie or undefined average), whatever the previous row had.
C1_TieResetsToHold ==
    Ran("MA Crossover") =>
        \A i \in Rows :
            df["signal"][i] =
                IF FastAbove(i) THEN 1 ELSE IF FastBelow(i) THEN -1 ELSE 0

\* A tie right after a non-zero signal.
C1_Witness ==
    /\ Ran("MA Crossover")
    /\ \E i \in Rows :
          /\ i > 1
          /\ BothMeans(i)
          /\ MeanGap(i, params.fast, params.slow) = 0
          /\ df["signal"][i - 1] = 1
          /\ df["signal"][i] = 0

\* An undefined average right after a non-zero signal.
GapAfterSignal ==
    /\ Ran("MA Crossover")
    /\ \E i \in Rows :
          /\ i > 1
          /\ ~BothMeans(i)
          /\ df["signal"][i - 1] # 0
          /\ df["signal"][i] = 0

IndicatorUndefined(i) ==
    CASE strategy_name = "MA Crossover" -> IsNaN(df["ma_fast"][i]) \/ IsNaN(df["ma_slow"][i])
      [] strategy_name = "RSI" -> IsNaN(df["rsi"][i])
      [] strategy_name = "MACD" -> IsNaN(df["macd"][i]) \/ IsNaN(df["signal_line"][i])
      [] strategy_name = "Bollinger Bands" ->
           IsNaN(df["upper"][i]) \/ IsNaN(df["lower"][i]) \/ IsNaN(Close(i))
      [] strategy_name = "Breakout" ->
           IsNaN(df["recent_high"][i]) \/ IsNaN(df["recent_low"][i]) \/ IsNaN(Close(i))
      [] strategy_name = "VWAP" -> IsNaN(df["vwap"][i]) \/ IsNaN(Close(i))
      [] strategy_name = "Momentum" -> IsNaN(df["mom"][i])

\* The window parameter n of the strategies that have one, else 1.
WarmUp ==
    CASE strategy_name = "MA Crossover" -> params.slow
      [] strategy_name \in {"RSI", "Bollinger Bands", "Breakout"} -> params.length
      [] OTHER -> 1

\* C5: after any strategy the signal column has one entry per row, each in
\* {-1, 0, 1}; it is 0 wherever a required indicator is undefined, and on the
\* first n-1 rows of a strategy with window n.
C5_SignalWellFormed ==
    Evaluated =>
        /\ DOMAIN df["signal"] = Rows
        /\ \A i \in Rows :
              /\ df["signal"][i] \in {-1, 0, 1}
              /\ IndicatorUndefined(i) => df["signal"][i] = 0
              /\ i <= WarmUp - 1 => df["signal"][i] = 0

\* A windowed strategy that signals right after its warm-up rows.
C5_Witness ==
    /\ Ran("RSI")
    /\ params.length = 2
    /\ Cardinality(Rows) = 3
    /\ df["signal"] = <<0, 0, -1>>

\* C6: every defined rsi lies in [0, 100]; the signal is +1 only where rsi < 30
\* and -1 only where rsi > 70.
C6_RsiBounds ==
    Ran("RSI") =>
        \A i \in Rows :
            /\ ~IsNaN(df["rsi"][i]) =>
                  /\ ~FLt(df["rsi"][i], FromInt(0))
                  /\ ~FGt(df["rsi"][i], FromInt(100))
            /\ df["signal"][i] = 1 => FLt(df["rsi"][i], FromInt(30))
            /\ df["signal"][i] = -1 => FGt(df["rsi"][i], FromInt(70))

\* A finite series with an oversold row, an overbought row and one in between.
C6_Witness ==
    /\ Ran("RSI")
    /\ \A i \in Rows : ~IsNaN(Close(i))
    /\ \E i, j \in Rows : df["signal"][i] = 1 /\ df["signal"][j] = -1
    /\ params.length = 1

C6_WitnessMid ==
    /\ Ran("RSI")
    /\ \E i \in Rows : df["rsi"][i] = FromInt(50) /\ df["signal"][i] = 0

ClosesUpTo(i) == {Close(j) : j \in {k \in 1..i : ~IsNaN(Close(k))}}

\* C7: with all volumes strictly positive, every defined vwap lies between the
\* smallest and the largest close of the rows so far.
C7_VwapWithinCloseRange ==
    (Ran("VWAP") /\ \A i \in Rows : FGt(df0["volume"][i], PZero)) =>
        \A i \in Rows :
            ~IsNaN(df["vwap"][i]) =>
                /\ \E c \in ClosesUpTo(i) : ~FGt(c, df["vwap"][i])
                /\ \E c \in ClosesUpTo(i) : ~FLt(c, df["vwap"][i])

\* The same bound for series in which no close is missing.
VwapWithinCloseRangeNoGaps ==
    (/\ Ran("VWAP")
     /\ \A i \in Rows : FGt(df0["volume"][i], PZero) /\ ~IsNaN(Close(i))) =>
        \A i \in Rows :
            /\ ~IsNaN(df["vwap"][i])
            /\ \E c \in ClosesUpTo(i) : ~FGt(c, df["vwap"][i])
            /\ \E c \in ClosesUpTo(i) : ~FLt(c, df["vwap"][i])

\* The n price deltas ending at row i exist and none is a loss.
NoLossWindow(i, n) ==
    /\ i > n
    /\ \A j \in (i - n)..i : ~IsNaN(Close(j))
    /\ \A j \in (i - n + 1)..i : ~FLt(Close(j), Close(j - 1))

\* C8 as claimed: a window without a loss gives signal 0.
C8_NoLossWindowHolds ==
    Ran("RSI") =>
        \A i \in Rows : NoLossWindow(i, params.length) => df["signal"][i] = 0

\* C8 amended: on a window without a loss the evaluation completes; with no gain
\* either rsi is NaN and the signal 0, with a gain rsi is 100 and the signal -1.
C8_NoLossWindowIsOverbought ==
    Ran("RSI") =>
        \A i \in Rows :
            NoLossWindow(i, params.length) =>
                IF Close(i) = Close(i - params.length)
                THEN IsNaN(df["rsi"][i]) /\ df["signal"][i] = 0
                ELSE df["rsi"][i] = FromInt(100) /\ df["signal"][i] = -1

C8_Witness ==
    /\ Ran("RSI")
    /\ \E i \in Rows :
          /\ NoLossWindow(i, params.length)
          /\ FGt(Close(i), Close(i - params.length))
          /\ df["signal"][i] = -1
    /\ \E i \in Rows :
          /\ NoLossWindow(i, params.length)
          /\ Close(i) = Close(i - params.length)
          /\ df["signal"][i] = 0

\* C9 as claimed: after the call the caller's table has the columns and values
\* it had before.
C9_CallerTableUntouched == Evaluated => df = df0

AddedColumns ==
    CASE strategy_name = "MA Crossover" -> {"ma_fast", "ma_slow", "signal"}
      [] strategy_name = "RSI" -> {"rsi", "signal"}
      [] strategy_name = "MACD" -> {"ema12", "ema26", "macd", "signal_line", "hist", "signal"}
      [] strategy_name = "Bollinger Bands" -> {"ma", "std", "upper", "lower", "signal"}
      [] strategy_name = "Breakout" -> {"recent_high", "recent_low", "signal"}
      [] strategy_name = "VWAP" -> {"cum_vol", "cum_pv", "vwap", "signal"}
      [] strategy_name = "Momentum" -> {"mom", "signal"}

ExtendedInPlace ==
    Evaluated =>
        /\ ret = df
        /\ DOMAIN df = DOMAIN df0 \cup AddedColumns
        /\ \A c \in DOMAIN df0 : df[c] = df0[c]

\* C9 amended: the call writes the indicator and signal columns into the table
\* it was given, which is the table it returns; the columns that were there keep
\* their values; evaluating again with the same parameters changes nothing.
C9_ExtendsInPlaceAndRepeats ==
    /\ []ExtendedInPlace
    /\ [][Evaluated => (df' = df /\ ret' = ret)]_vars

C9_Witness == pc = "reevaluated" /\ df # df0 /\ Cardinality(Rows) > 1

\* C10: close never exceeds recent_high nor falls below recent_low where they
\* are defined, so the Breakout signal is 0 on every row.
C10_BreakoutNeverSignals ==
    Ran("Breakout") =>
        \A i \in Rows :
            /\ df["signal"][i] = 0
            /\ ~FGt(Close(i), df["recent_high"][i])
            /\ ~FLt(Close(i), df["recent_low"][i])
            /\ ~IsNaN(df["recent_high"][i]) =>
                  /\ ~FLt(df["recent_high"][i], Close(i))
                  /\ ~FGt(df["recent_low"][i], Close(i))

\* A close above every earlier close of its window, and still no signal.
C10_Witness ==
    /\ Ran("Breakout")
    /\ params.length = 2
    /\ \E i \in Rows :
          /\ i > 1
          /\ ~IsNaN(df["recent_high"][i])
          /\ FGt(Close(i), Close(i - 1))
          /\ df["signal"][i] = 0

====
